---- MODULE Spec2Model ----
(***************************************************************************)
(* Model of the bit_roles crate: the role validator, the checked          *)
(* RoleManager and the runtime-validated RoleManagerUnchecked.  A manager  *)
(* is one usize bit mask; usize is modelled as a word of WordBits bits.    *)
(***************************************************************************)
EXTENDS Integers, Sequences, FiniteSets, TLC

\* ------------------------------------------------------------------ bounds
\* width of usize in the model (the crate runs on a 32/64 bit usize)
WordBits == 3
\* longest Vec of roles handed to a batch operation
MaxLen == 2

RECURSIVE pow2(_)
pow2(n) == IF n = 0 THEN 1 ELSE 2 * pow2(n - 1)

MaxWord == pow2(WordBits) - 1
Word == 0..MaxWord

SeqsUpTo(S, n) == UNION {[1..k -> S] : k \in 0..n}

\* -------------------------------------------------- usize bit operations
RECURSIVE bitand(_, _)
bitand(a, b) ==
    IF a = 0 \/ b = 0 THEN 0
    ELSE (IF a % 2 = 1 /\ b % 2 = 1 THEN 1 ELSE 0) + 2 * bitand(a \div 2, b \div 2)

RECURSIVE bitor(_, _)
bitor(a, b) ==
    IF a = 0 THEN b
    ELSE IF b = 0 THEN a
    ELSE (IF a % 2 = 1 \/ b % 2 = 1 THEN 1 ELSE 0) + 2 * bitor(a \div 2, b \div 2)

RECURSIVE notbits(_, _)
notbits(a, n) ==
    IF n = 0 THEN 0 ELSE (1 - (a % 2)) + 2 * notbits(a \div 2, n - 1)

not_narrow(a) == notbits(a, WordBits - 1)
\* the `!` operator on usize: every bit of the word is flipped
not(a) == notbits(a, WordBits)

RECURSIVE count_ones(_)
count_ones(a) == IF a = 0 THEN 0 ELSE (a % 2) + count_ones(a \div 2)

is_power_of_two(a) == count_ones(a) = 1

\* ---------------------------------------------------------------- results
Ok(v) == [tag |-> "Ok", val |-> v]
InvalidRole(mag) == [tag |-> "InvalidRole", val |-> mag]
Panic(msg) == [tag |-> "Panic", val |-> msg]

\* ------------------------------------------------------------- validator
is_valid_role(value) == value = 0 \/ is_power_of_two(value)

is_validate_role_zero_rejected(value) == is_power_of_two(value)
is_validate_role(value) == value = 0 \/ is_power_of_two(value)

negate_identity(value) == value
negate(value) == ~value

\* ------------------------------------------------------ symbolic role types
\* A role enum deriving BitRole: variant 0 is the sentinel (discriminant 0),
\* variant i has discriminant 2^(i-1); these are all the discriminants the
\* derive accepts within the word.
CheckedRole == 0..WordBits
checked_into(role) == IF role = 0 THEN 0 ELSE pow2(role - 1)

\* A role enum deriving BitRoleUnchecked, with a host written Into<usize>:
\* two variants share a magnitude and one maps to a composite value.
UncheckedRole == {"None", "One", "Two", "Deux", "Five"}
unchecked_into(role) ==
    CASE role = "None" -> 0
      [] role = "One" -> 1
      [] role = "Two" -> 2
      [] role = "Deux" -> 2
      [] role = "Five" -> 5

\* RoleValue<T>
Role(role) == [tag |-> "Role", role |-> role]
Raw(value) == [tag |-> "Raw", value |-> value]

RoleValue == {Role(r) : r \in UncheckedRole} \cup {Raw(v) : v \in Word}

\* impl From<RoleValue<T>> for usize
role_value_into(val) ==
    IF val.tag = "Role" THEN unchecked_into(val.role) ELSE val.value

\* impl PartialEq for RoleValue<T>
role_value_eq_tagged(a, b) ==
    a.tag = b.tag /\ role_value_into(a) = role_value_into(b)
role_value_eq(a, b) == role_value_into(a) = role_value_into(b)

from_role(role) == Role(role)
from_usize(value) == Raw(value)

try_from_role_no_check(role) == Ok(Role(role))
try_from_role(role) ==
    IF is_valid_role(unchecked_into(role))
    THEN Ok(Role(role))
    ELSE InvalidRole(unchecked_into(role))

try_from_usize(value) ==
    IF is_valid_role(value) THEN Ok(Raw(value)) ELSE InvalidRole(value)

\* ---------------------------------------------------------- constructors
empty == 0
from_value_validated(v) == IF is_valid_role(v) THEN v ELSE 0
from_value(v) == v

unchecked_empty == 0
unchecked_from_value(v) == v

get_value(self) == self
unchecked_get_value(self) == self

\* impl PartialEq for RoleManager<T> / RoleManagerUnchecked<T>
eq_same_emptiness(self, other) == (self = 0) = (other = 0)
eq(self, other) == self = other
unchecked_eq(self, other) == self = other

\* ------------------------------------------------- checked RoleManager<T>
add_one_assign(self, role) == checked_into(role)
add_one_and(self, role) == bitand(self, checked_into(role))
add_one(self, role) == bitor(self, checked_into(role))

RECURSIVE add_all_from(_, _, _)
add_all_from(self, roles, i) ==
    IF i > Len(roles) THEN self
    ELSE add_all_from(add_one(self, roles[i]), roles, i + 1)

add_all_first_only(self, roles) ==
    IF Len(roles) = 0 THEN self ELSE add_one(self, roles[1])
add_all(self, roles) == add_all_from(self, roles, 1)

remove_one_subtract(self, role) == (self + pow2(WordBits) - checked_into(role)) % pow2(WordBits)
remove_one_no_complement(self, role) == bitand(self, checked_into(role))
remove_one(self, role) == bitand(self, not(checked_into(role)))

RECURSIVE remove_all_from(_, _, _)
remove_all_from(self, roles, i) ==
    IF i > Len(roles) THEN self
    ELSE remove_all_from(remove_one(self, roles[i]), roles, i + 1)

remove_all_first_only(self, roles) ==
    IF Len(roles) = 0 THEN self ELSE remove_one(self, roles[1])
remove_all(self, roles) == remove_all_from(self, roles, 1)

has_one_subset(self, role) == bitand(self, checked_into(role)) = checked_into(role)
has_one(self, role) == bitand(self, checked_into(role)) # 0

has_all_any(self, roles) ==
    \E i \in 1..Len(roles) : bitand(self, checked_into(roles[i])) # 0
has_all(self, roles) ==
    \A i \in 1..Len(roles) : bitand(self, checked_into(roles[i])) # 0

has_any(self, roles) ==
    \E i \in 1..Len(roles) : bitand(self, checked_into(roles[i])) # 0

not_one(self, role) == ~has_one(self, role)
not_all(self, roles) == ~has_all(self, roles)
not_any(self, roles) == ~has_any(self, roles)

\* --------------------------------------- RoleManagerUnchecked<T>: fallible
\* A mutating operation yields the new self.0 and its Result; a query
\* yields its Result only (it takes &self).
validate_role_trust_role(role) ==
    LET mag == role_value_into(role)
    IN  IF role.tag = "Role" \/ is_validate_role(mag) THEN Ok(mag) ELSE InvalidRole(mag)
validate_role_no_check(role) == Ok(role_value_into(role))
validate_role(role) ==
    LET mag == role_value_into(role)
    IN  IF is_validate_role(mag) THEN Ok(mag) ELSE InvalidRole(mag)

try_add_one_plus(self, role) ==
    LET value == validate_role(role)
    IN  IF value.tag = "InvalidRole"
        THEN [self |-> self, res |-> value]
        ELSE [self |-> (self + value.val) % pow2(WordBits), res |-> Ok("self")]
try_add_one(self, role) ==
    LET value == validate_role(role)
    IN  IF value.tag = "InvalidRole"
        THEN [self |-> self, res |-> value]
        ELSE [self |-> bitor(self, value.val), res |-> Ok("self")]

RECURSIVE try_add_all_from(_, _, _)
try_add_all_from(self, roles, i) ==
    IF i > Len(roles) THEN [self |-> self, res |-> Ok("self")]
    ELSE LET step == try_add_one(self, roles[i])
         IN  IF step.res.tag = "InvalidRole" THEN step
             ELSE try_add_all_from(step.self, roles, i + 1)

try_add_all_atomic(self, roles) ==
    LET done == try_add_all_from(self, roles, 1)
    IN  IF done.res.tag = "InvalidRole"
        THEN [self |-> self, res |-> done.res]
        ELSE done
try_add_all(self, roles) == try_add_all_from(self, roles, 1)

try_remove_one_toggle(self, role) ==
    LET value == validate_role(role)
    IN  IF value.tag = "InvalidRole"
        THEN [self |-> self, res |-> value]
        ELSE [self |-> IF bitand(self, value.val) = value.val
                       THEN self - value.val ELSE self + value.val,
              res |-> Ok("self")]
try_remove_one_no_complement(self, role) ==
    LET value == validate_role(role)
    IN  IF value.tag = "InvalidRole"
        THEN [self |-> self, res |-> value]
        ELSE [self |-> bitand(self, value.val), res |-> Ok("self")]
try_remove_one(self, role) ==
    LET value == validate_role(role)
    IN  IF value.tag = "InvalidRole"
        THEN [self |-> self, res |-> value]
        ELSE [self |-> bitand(self, not(value.val)), res |-> Ok("self")]

RECURSIVE try_remove_all_from(_, _, _)
try_remove_all_from(self, roles, i) ==
    IF i > Len(roles) THEN [self |-> self, res |-> Ok("self")]
    ELSE LET step == try_remove_one(self, roles[i])
         IN  IF step.res.tag = "InvalidRole" THEN step
             ELSE try_remove_all_from(step.self, roles, i + 1)

try_remove_all(self, roles) == try_remove_all_from(self, roles, 1)

try_has_one_subset(self, role) ==
    LET value == validate_role(role)
    IN  IF value.tag = "InvalidRole" THEN value
        ELSE Ok(bitand(self, value.val) = value.val)
try_has_one(self, role) ==
    LET value == validate_role(role)
    IN  IF value.tag = "InvalidRole" THEN value
        ELSE Ok(bitand(self, value.val) # 0)

RECURSIVE try_has_all_from(_, _, _, _)
try_has_all_from(self, roles, i, flag) ==
    IF i > Len(roles) THEN Ok(flag)
    ELSE LET step == try_has_one(self, roles[i])
         IN  IF step.tag = "InvalidRole" THEN step
             ELSE try_has_all_from(self, roles, i + 1, step.val)

RECURSIVE try_has_all_and_from(_, _, _, _)
try_has_all_and_from(self, roles, i, flag) ==
    IF i > Len(roles) THEN Ok(flag)
    ELSE LET step == try_has_one(self, roles[i])
         IN  IF step.tag = "InvalidRole" THEN step
             ELSE try_has_all_and_from(self, roles, i + 1, flag /\ step.val)
try_has_all_conjunction(self, roles) == try_has_all_and_from(self, roles, 1, TRUE)

RECURSIVE try_has_all_short_from(_, _, _)
try_has_all_short_from(self, roles, i) ==
    IF i > Len(roles) THEN Ok(TRUE)
    ELSE LET step == try_has_one(self, roles[i])
         IN  IF step.tag = "InvalidRole" THEN step
             ELSE IF ~step.val THEN Ok(FALSE)
             ELSE try_has_all_short_from(self, roles, i + 1)
try_has_all_short_circuit(self, roles) == try_has_all_short_from(self, roles, 1)

try_has_all(self, roles) == try_has_all_from(self, roles, 1, FALSE)

RECURSIVE try_has_any_from(_, _, _)
try_has_any_from(self, roles, i) ==
    IF i > Len(roles) THEN Ok(FALSE)
    ELSE LET step == try_has_one(self, roles[i])
         IN  IF step.tag = "InvalidRole" THEN step
             ELSE IF step.val THEN Ok(TRUE)
             ELSE try_has_any_from(self, roles, i + 1)

try_has_any_last(self, roles) == try_has_all_from(self, roles, 1, FALSE)
try_has_any(self, roles) == try_has_any_from(self, roles, 1)

\* Result::map(negate)
map_negate(res) == IF res.tag = "Ok" THEN Ok(negate(res.val)) ELSE res

try_not_one(self, role) == map_negate(try_has_one(self, role))
try_not_all(self, roles) == map_negate(try_has_all(self, roles))
try_not_any(self, roles) == map_negate(try_has_any(self, roles))

\* ------------------------------------ RoleManagerUnchecked<T>: panicking
to_role_values(roles) == [i \in 1..Len(roles) |-> Role(roles[i])]

\* Result::expect on a mutating operation / on a query (the panic messages
\* are kept without the backquotes of the source text)
expect_mut(step, msg) ==
    IF step.res.tag = "InvalidRole"
    THEN [self |-> step.self, res |-> Panic(msg)]
    ELSE step
expect(res, msg) == IF res.tag = "InvalidRole" THEN Panic(msg) ELSE res

unchecked_add_one(self, role) ==
    expect_mut(try_add_one(self, Role(role)), "role is invalid")
unchecked_add_all(self, roles) ==
    expect_mut(try_add_all(self, to_role_values(roles)),
               "roles contain invalid values")
unchecked_remove_one(self, role) ==
    expect_mut(try_remove_one(self, Role(role)), "role is invalid")
unchecked_remove_all(self, roles) ==
    expect_mut(try_remove_all(self, to_role_values(roles)),
               "roles contain invalid values")
unchecked_has_one(self, role) ==
    expect(try_has_one(self, Role(role)), "role is invalid")
unchecked_has_all(self, roles) ==
    expect(try_has_all(self, to_role_values(roles)),
           "roles contain invalid values")
unchecked_has_any(self, roles) ==
    expect(try_has_any(self, to_role_values(roles)),
           "roles contain invalid values")
unchecked_not_one(self, role) ==
    expect(try_not_one(self, Role(role)), "role is invalid")
unchecked_not_all(self, roles) ==
    expect(try_not_all(self, to_role_values(roles)),
           "roles contain invalid values")
unchecked_not_any_calls_not_all(self, roles) ==
    expect(try_not_all(self, to_role_values(roles)),
           "roles contain invalid values")
unchecked_not_any(self, roles) ==
    expect(try_not_any(self, to_role_values(roles)),
           "roles contain invalid values")

\* ------------------------------------------------------------------ state
\* kind  : which manager type the instance is ("checked" / "unchecked")
\* value : the manager's field self.0
\* last  : the last call made: its name, argument, self.0 before the call
\*         and what it returned
VARIABLES kind, value, last
vars == <<kind, value, last>>

Call(op, arg, pre, res) == [op |-> op, arg |-> arg, pre |-> pre, res |-> res]

\* the inputs handed to the batch operations: Vecs over the sentinel and two
\* single-bit roles (checked), over two valid and one composite role
\* (unchecked, bare roles), over Raw and Role values, valid and composite
CheckedRoleSeqs == SeqsUpTo({0, 1, 2}, MaxLen)
UncheckedRoleSeqs == SeqsUpTo({"One", "Two", "Five"}, MaxLen)
RoleValueSeqs == SeqsUpTo({Raw(1), Role("Two"), Raw(5)}, MaxLen)

\* wider Vecs for the batch specification: two distinct composite values
BatchRoleValueSeqs == SeqsUpTo({Raw(1), Role("Two"), Raw(3), Raw(5)}, MaxLen)

Init ==
    /\ kind \in {"checked", "unchecked"}
    /\ value = (IF kind = "checked" THEN empty ELSE unchecked_empty)
    /\ last = Call("empty", <<>>, 0, Ok("self"))

\* a panic unwinds the caller: nothing runs on the manager afterwards
Running == last.res.tag # "Panic"
Checked == Running /\ kind = "checked"
Unchecked == Running /\ kind = "unchecked"

\* ----------------------------------------------------------- free functions
IsValidateRole ==
    \E v \in Word :
        /\ Running
        /\ last' = Call("is_validate_role", v, value, Ok(is_validate_role(v)))
        /\ UNCHANGED <<kind, value>>

TryFromUsize ==
    \E v \in Word :
        /\ Running
        /\ last' = Call("try_from_usize", v, value, try_from_usize(v))
        /\ UNCHANGED <<kind, value>>

\* ------------------------------------------------------------ constructors
\* The host builds a fresh manager of either type; it takes the place of the
\* instance under observation.
Empty ==
    /\ Running
    /\ kind' = "checked"
    /\ value' = empty
    /\ last' = Call("empty", <<>>, value, Ok("self"))

FromValue ==
    \E v \in Word :
        /\ Running
        /\ kind' = "checked"
        /\ value' = from_value(v)
        /\ last' = Call("from_value", v, value, Ok("self"))

UncheckedEmpty ==
    /\ Running
    /\ kind' = "unchecked"
    /\ value' = unchecked_empty
    /\ last' = Call("empty", <<>>, value, Ok("self"))

UncheckedFromValue ==
    \E v \in Word :
        /\ Running
        /\ kind' = "unchecked"
        /\ value' = unchecked_from_value(v)
        /\ last' = Call("from_value", v, value, Ok("self"))

\* -------------------------------------------------- checked manager calls
CheckedMut(op, arg, new) ==
    /\ value' = new
    /\ last' = Call(op, arg, value, Ok("self"))
    /\ UNCHANGED kind

CheckedQuery(op, arg, result) ==
    /\ last' = Call(op, arg, value, Ok(result))
    /\ UNCHANGED <<kind, value>>

AddOne ==
    Checked /\ \E role \in CheckedRole :
        CheckedMut("add_one", role, add_one(value, role))
AddAll ==
    Checked /\ \E roles \in CheckedRoleSeqs :
        CheckedMut("add_all", roles, add_all(value, roles))
RemoveOne ==
    Checked /\ \E role \in CheckedRole :
        CheckedMut("remove_one", role, remove_one(value, role))
RemoveAll ==
    Checked /\ \E roles \in CheckedRoleSeqs :
        CheckedMut("remove_all", roles, remove_all(value, roles))
HasOne ==
    Checked /\ \E role \in CheckedRole :
        CheckedQuery("has_one", role, has_one(value, role))
HasAll ==
    Checked /\ \E roles \in CheckedRoleSeqs :
        CheckedQuery("has_all", roles, has_all(value, roles))
HasAny ==
    Checked /\ \E roles \in CheckedRoleSeqs :
        CheckedQuery("has_any", roles, has_any(value, roles))
NotOne ==
    Checked /\ \E role \in CheckedRole :
        CheckedQuery("not_one", role, not_one(value, role))
NotAll ==
    Checked /\ \E roles \in CheckedRoleSeqs :
        CheckedQuery("not_all", roles, not_all(value, roles))
NotAny ==
    Checked /\ \E roles \in CheckedRoleSeqs :
        CheckedQuery("not_any", roles, not_any(value, roles))
GetValue ==
    Checked /\ CheckedQuery("get_value", <<>>, get_value(value))

\* ------------------------------------------------ unchecked manager calls
UncheckedMut(op, arg, step) ==
    /\ value' = step.self
    /\ last' = Call(op, arg, value, step.res)
    /\ UNCHANGED kind

UncheckedQuery_reset_on_error(op, arg, res) ==
    /\ last' = Call(op, arg, value, res)
    /\ value' = (IF res.tag = "Ok" THEN value ELSE 0)
    /\ UNCHANGED kind
UncheckedQuery(op, arg, res) ==
    /\ last' = Call(op, arg, value, res)
    /\ UNCHANGED <<kind, value>>

TryAddOne ==
    Unchecked /\ \E role \in RoleValue :
        UncheckedMut("try_add_one", role, try_add_one(value, role))
TryAddAll ==
    Unchecked /\ \E roles \in RoleValueSeqs :
        UncheckedMut("try_add_all", roles, try_add_all(value, roles))
TryRemoveOne ==
    Unchecked /\ \E role \in RoleValue :
        UncheckedMut("try_remove_one", role, try_remove_one(value, role))
TryRemoveAll ==
    Unchecked /\ \E roles \in RoleValueSeqs :
        UncheckedMut("try_remove_all", roles, try_remove_all(value, roles))
TryHasOne ==
    Unchecked /\ \E role \in RoleValue :
        UncheckedQuery("try_has_one", role, try_has_one(value, role))
TryHasAll ==
    Unchecked /\ \E roles \in RoleValueSeqs :
        UncheckedQuery("try_has_all", roles, try_has_all(value, roles))
TryHasAny ==
    Unchecked /\ \E roles \in RoleValueSeqs :
        UncheckedQuery("try_has_any", roles, try_has_any(value, roles))
TryNotOne ==
    Unchecked /\ \E role \in RoleValue :
        UncheckedQuery("try_not_one", role, try_not_one(value, role))
TryNotAll ==
    Unchecked /\ \E roles \in RoleValueSeqs :
        UncheckedQuery("try_not_all", roles, try_not_all(value, roles))
TryNotAny ==
    Unchecked /\ \E roles \in RoleValueSeqs :
        UncheckedQuery("try_not_any", roles, try_not_any(value, roles))

UncheckedAddOne ==
    Unchecked /\ \E role \in UncheckedRole :
        UncheckedMut("add_one", role, unchecked_add_one(value, role))
UncheckedAddAll ==
    Unchecked /\ \E roles \in UncheckedRoleSeqs :
        UncheckedMut("add_all", roles, unchecked_add_all(value, roles))
UncheckedRemoveOne ==
    Unchecked /\ \E role \in UncheckedRole :
        UncheckedMut("remove_one", role, unchecked_remove_one(value, role))
UncheckedRemoveAll ==
    Unchecked /\ \E roles \in UncheckedRoleSeqs :
        UncheckedMut("remove_all", roles, unchecked_remove_all(value, roles))
UncheckedHasOne ==
    Unchecked /\ \E role \in UncheckedRole :
        UncheckedQuery("has_one", role, unchecked_has_one(value, role))
UncheckedHasAll ==
    Unchecked /\ \E roles \in UncheckedRoleSeqs :
        UncheckedQuery("has_all", roles, unchecked_has_all(value, roles))
UncheckedHasAny ==
    Unchecked /\ \E roles \in UncheckedRoleSeqs :
        UncheckedQuery("has_any", roles, unchecked_has_any(value, roles))
UncheckedNotOne ==
    Unchecked /\ \E role \in UncheckedRole :
        UncheckedQuery("not_one", role, unchecked_not_one(value, role))
UncheckedNotAll ==
    Unchecked /\ \E roles \in UncheckedRoleSeqs :
        UncheckedQuery("not_all", roles, unchecked_not_all(value, roles))
UncheckedNotAny ==
    Unchecked /\ \E roles \in UncheckedRoleSeqs :
        UncheckedQuery("not_any", roles, unchecked_not_any(value, roles))
UncheckedGetValue ==
    Unchecked /\ UncheckedQuery("get_value", <<>>, Ok(unchecked_get_value(value)))

Eq ==
    Checked /\ \E other \in Word :
        CheckedQuery("eq", other, eq(value, other))
UncheckedEq ==
    Unchecked /\ \E other \in Word :
        UncheckedQuery("eq", other, Ok(unchecked_eq(value, other)))

Next ==
    \/ IsValidateRole \/ TryFromUsize
    \/ Empty \/ FromValue \/ UncheckedEmpty \/ UncheckedFromValue
    \/ AddOne \/ AddAll \/ RemoveOne \/ RemoveAll
    \/ HasOne \/ HasAll \/ HasAny \/ NotOne \/ NotAll \/ NotAny \/ GetValue
    \/ TryAddOne \/ TryAddAll \/ TryRemoveOne \/ TryRemoveAll
    \/ TryHasOne \/ TryHasAll \/ TryHasAny
    \/ TryNotOne \/ TryNotAll \/ TryNotAny
    \/ UncheckedAddOne \/ UncheckedAddAll
    \/ UncheckedRemoveOne \/ UncheckedRemoveAll
    \/ UncheckedHasOne \/ UncheckedHasAll \/ UncheckedHasAny
    \/ UncheckedNotOne \/ UncheckedNotAll \/ UncheckedNotAny
    \/ UncheckedGetValue
    \/ Eq \/ UncheckedEq

Spec == Init /\ [][Next]_vars

\* ------------------------------------------------- RoleValue on its own
\* The RoleValue constructors, conversion and comparison; no manager is
\* touched.
FreeCall(op, arg, res) ==
    /\ last' = Call(op, arg, value, res)
    /\ UNCHANGED <<kind, value>>

FromRole ==
    \E role \in UncheckedRole : FreeCall("from_role", role, Ok(from_role(role)))
FromUsize ==
    \E v \in Word : FreeCall("from_usize", v, Ok(from_usize(v)))
TryFromRole ==
    \E role \in UncheckedRole : FreeCall("try_from_role", role, try_from_role(role))
RoleValueInto ==
    \E val \in RoleValue : FreeCall("into", val, Ok(role_value_into(val)))
RoleValueEq ==
    \E a \in RoleValue, b \in RoleValue :
        FreeCall("role_value_eq", <<a, b>>, Ok(role_value_eq(a, b)))

NextRoleValue ==
    \/ FromRole \/ FromUsize \/ TryFromRole \/ TryFromUsize
    \/ RoleValueInto \/ RoleValueEq

SpecRoleValue == Init /\ [][NextRoleValue]_vars

\* ------------------------------------- batch operations on wider Vecs
BatchTryAddAll ==
    Unchecked /\ \E roles \in BatchRoleValueSeqs :
        UncheckedMut("try_add_all", roles, try_add_all(value, roles))
BatchTryRemoveAll ==
    Unchecked /\ \E roles \in BatchRoleValueSeqs :
        UncheckedMut("try_remove_all", roles, try_remove_all(value, roles))
BatchTryHasAll ==
    Unchecked /\ \E roles \in BatchRoleValueSeqs :
        UncheckedQuery("try_has_all", roles, try_has_all(value, roles))

NextBatch ==
    \/ UncheckedFromValue
    \/ BatchTryAddAll \/ BatchTryRemoveAll \/ BatchTryHasAll
    \/ UncheckedHasAll

SpecBatch == Init /\ [][NextBatch]_vars

\* ------------------------------------------------ the BitRole derive macro
\* The macro sees the enum as syntax.  A variant is its identifier (here its
\* position in the declaration) and its discriminant expression: absent, an
\* integer literal (by its digits), another literal, or another expression
\* such as the unary minus of -3.
CompileError(ident, msg) == [tag |-> "CompileError", val |-> [ident |-> ident, msg |-> msg]]

NoDiscriminant == [expr |-> "None", digits |-> 0]
LitInt(n) == [expr |-> "Lit::Int", digits |-> n]
LitStr == [expr |-> "Lit::Str", digits |-> 0]
ExprUnary(n) == [expr |-> "Unary", digits |-> n]

\* LitInt::base10_parse::<usize>: the digits as a usize, an error beyond it
base10_parse(digits) == IF digits \in Word THEN Ok(digits) ELSE [tag |-> "Err", val |-> digits]

validate_enum_variant_no_power_check(variant) ==
    LET d == variant.discriminant IN
    IF d.expr = "None"
    THEN CompileError(variant.ident, "must have a hard-coded discriminant value")
    ELSE IF d.expr = "Lit::Int"
    THEN IF base10_parse(d.digits).tag # "Ok"
         THEN CompileError(variant.ident, "cannot parse as usize")
         ELSE Ok("unit")
    ELSE IF d.expr = "Lit::Str"
    THEN CompileError(variant.ident, "must have an integer discriminant")
    ELSE CompileError(variant.ident, "must have a literal RHS expression")
validate_enum_variant(variant) ==
    LET d == variant.discriminant IN
    IF d.expr = "None"
    THEN CompileError(variant.ident, "must have a hard-coded discriminant value")
    ELSE IF d.expr = "Lit::Int"
    THEN LET parsed == base10_parse(d.digits) IN
         IF parsed.tag # "Ok"
         THEN CompileError(variant.ident, "cannot parse as usize")
         ELSE IF parsed.val # 0 /\ ~is_power_of_two(parsed.val)
         THEN CompileError(variant.ident, "is neither zero nor a power of two")
         ELSE Ok("unit")
    ELSE IF d.expr = "Lit::Str"
    THEN CompileError(variant.ident, "must have an integer discriminant")
    ELSE CompileError(variant.ident, "must have a literal RHS expression")

\* the loop over the variants in declaration order: the first error is the
\* macro's whole output, the impls are emitted only past the loop
RECURSIVE derive_bit_role_from(_, _)
derive_bit_role_from(variants, i) ==
    IF i > Len(variants) THEN Ok("impl Into<usize> + RoleVariant + BitRoleImpl")
    ELSE LET checked == validate_enum_variant(variants[i]) IN
         IF checked.tag = "Ok" THEN derive_bit_role_from(variants, i + 1)
         ELSE checked

derive_bit_role(input) ==
    IF input.data = "Enum" THEN derive_bit_role_from(input.variants, 1)
    ELSE CompileError(0, "This macro can only be used with enums.")

\* the discriminants tried: none, "x", -3, and the integer literals 0, 1, 2,
\* 5, the top bit of the word and the first value beyond the word
Discriminants ==
    {NoDiscriminant, LitStr, ExprUnary(3)}
        \cup {LitInt(n) : n \in {0, 1, 2, 5, pow2(WordBits - 1), pow2(WordBits)}}

Variants(ds) == [i \in 1..Len(ds) |-> [ident |-> i, discriminant |-> ds[i]]]

DeriveInputs ==
    {[data |-> "Enum", variants |-> Variants(ds)] : ds \in SeqsUpTo(Discriminants, MaxLen)}
        \cup {[data |-> "Struct", variants |-> <<>>]}

\* Before anything is compiled there is no role type and no manager; value
\* means something only once kind is "checked".
InitDerive ==
    /\ kind = "none"
    /\ value = 0
    /\ last = Call("rustc", <<>>, 0, Ok("unit"))

\* the type whose impls the manager constructors come from
DerivedType == IF last.op = "derive_bit_role" THEN last.arg ELSE last.arg.ty
HasBitRoleImpl ==
    \/ last.op = "derive_bit_role" /\ last.res.tag = "Ok"
    \/ last.op \in {"empty", "from_value"}

DeriveBitRole ==
    \E input \in DeriveInputs :
        /\ kind' = "none"
        /\ value' = 0
        /\ last' = Call("derive_bit_role", input, 0, derive_bit_role(input))

\* T::empty() and T::from_value(v) compile only where the macro emitted
\* BitRoleImpl for T; they are associated functions without a receiver
DerivedEmpty ==
    /\ HasBitRoleImpl
    /\ kind' = "checked"
    /\ value' = empty
    /\ last' = Call("empty", [ty |-> DerivedType, value |-> 0], 0, Ok("self"))

DerivedFromValue ==
    \E v \in Word :
        /\ HasBitRoleImpl
        /\ kind' = "checked"
        /\ value' = from_value(v)
        /\ last' = Call("from_value", [ty |-> DerivedType, value |-> v], 0, Ok("self"))

NextDerive == DeriveBitRole \/ DerivedEmpty \/ DerivedFromValue

SpecDerive == InitDerive /\ [][NextDerive]_vars

\* ------------------------------ a checked and an unchecked manager side by side
\* The host keeps a RoleManager and a RoleManagerUnchecked and makes every
\* call on both; here kind is "pair" and value holds the two fields self.0.
\* A role is given to the checked manager as a variant and to the unchecked
\* one as a RoleValue of the same magnitude.
PairRole ==
    {p \in CheckedRole \X RoleValue : role_value_into(p[2]) = checked_into(p[1])}
PairRoleSeqs ==
    SeqsUpTo({<<0, Role("None")>>, <<1, Raw(1)>>, <<2, Role("Deux")>>}, MaxLen)

CheckedSide(roles) == [i \in 1..Len(roles) |-> roles[i][1]]
UncheckedSide(roles) == [i \in 1..Len(roles) |-> roles[i][2]]

InitPair ==
    /\ kind = "pair"
    /\ value = [checked |-> empty, unchecked |-> unchecked_empty]
    /\ last = Call("empty", <<>>, value, [checked |-> Ok("self"), unchecked |-> Ok("self")])

PairFromValue ==
    \E v \in Word :
        /\ value' = [checked |-> from_value(v), unchecked |-> unchecked_from_value(v)]
        /\ last' = Call("from_value", v, value,
                        [checked |-> Ok("self"), unchecked |-> Ok("self")])
        /\ UNCHANGED kind

PairMut(op, arg, new, step) ==
    /\ value' = [checked |-> new, unchecked |-> step.self]
    /\ last' = Call(op, arg, value, [checked |-> Ok("self"), unchecked |-> step.res])
    /\ UNCHANGED kind

PairQuery(op, arg, result, res) ==
    /\ last' = Call(op, arg, value, [checked |-> Ok(result), unchecked |-> res])
    /\ UNCHANGED <<kind, value>>

PairAddOne ==
    \E p \in PairRole :
        PairMut("add_one", p, add_one(value.checked, p[1]),
                try_add_one(value.unchecked, p[2]))
PairAddAll ==
    \E roles \in PairRoleSeqs :
        PairMut("add_all", roles, add_all(value.checked, CheckedSide(roles)),
                try_add_all(value.unchecked, UncheckedSide(roles)))
PairRemoveOne ==
    \E p \in PairRole :
        PairMut("remove_one", p, remove_one(value.checked, p[1]),
                try_remove_one(value.unchecked, p[2]))
PairRemoveAll ==
    \E roles \in PairRoleSeqs :
        PairMut("remove_all", roles, remove_all(value.checked, CheckedSide(roles)),
                try_remove_all(value.unchecked, UncheckedSide(roles)))
PairHasOne ==
    \E p \in PairRole :
        PairQuery("has_one", p, has_one(value.checked, p[1]),
                  try_has_one(value.unchecked, p[2]))
PairHasAny ==
    \E roles \in PairRoleSeqs :
        PairQuery("has_any", roles, has_any(value.checked, CheckedSide(roles)),
                  try_has_any(value.unchecked, UncheckedSide(roles)))

NextPair ==
    \/ PairFromValue
    \/ PairAddOne \/ PairAddAll \/ PairRemoveOne \/ PairRemoveAll
    \/ PairHasOne \/ PairHasAny

SpecPair == InitPair /\ [][NextPair]_vars

\* ================================================================ claims
\* Bit-level reading of a magnitude, independent of the operators above.
BitsOf(x) == {i \in 0..(WordBits - 1) : (x \div pow2(i)) % 2 = 1}
SingleRole(r) == Cardinality(BitsOf(r)) <= 1
Intersects(m, r) == BitsOf(m) \cap BitsOf(r) # {}

\* magnitude of the role a single-role call was given
ArgMag(call, k) ==
    IF k = "checked" THEN checked_into(call.arg)
    ELSE IF call.op \in {"add_one", "remove_one", "has_one", "not_one"}
         THEN unchecked_into(call.arg)
         ELSE role_value_into(call.arg)

\* magnitudes of the roles a batch call was given
ArgMags(call, k) ==
    IF k = "checked" THEN [i \in 1..Len(call.arg) |-> checked_into(call.arg[i])]
    ELSE IF call.op \in {"add_all", "remove_all", "has_all", "has_any",
                          "not_all", "not_any"}
         THEN [i \in 1..Len(call.arg) |-> unchecked_into(call.arg[i])]
         ELSE [i \in 1..Len(call.arg) |-> role_value_into(call.arg[i])]

\* C1: the validator (is_validate_role, and is_valid_role behind
\* try_from_usize) answers true exactly for 0 and for the values with one bit
\* set, i.e. v = 0 or v & (v - 1) = 0; it accepts 0, 1, 2, 4, rejects 3, 5,
\* and the two functions agree.
C1_Expected(v) == v = 0 \/ bitand(v, v - 1) = 0
C1_ValidatorExact ==
    /\ last.op = "is_validate_role" =>
          /\ last.res.val = C1_Expected(last.arg)
          /\ last.res.val = (last.arg = 0 \/ Cardinality(BitsOf(last.arg)) = 1)
          /\ last.arg \in {0, 1, 2, 4} => last.res.val
          /\ last.arg \in {3, 5} => ~last.res.val
          /\ is_valid_role(last.arg) = last.res.val
    /\ last.op = "try_from_usize" =>
          /\ (last.res.tag = "Ok") = C1_Expected(last.arg)
          /\ (last.res.tag = "Ok") = is_validate_role(last.arg)
C1_Witness ==
    last.op = "is_validate_role" /\ last.arg = 5 /\ last.res.val = FALSE

\* C2: empty() gives a manager whose value is 0 and from_value(v) one whose
\* value is v, unvalidated, for both manager types.
C2_Constructors ==
    LET got == IF kind = "checked" THEN get_value(value)
               ELSE unchecked_get_value(value)
    IN  /\ last.op = "empty" => got = 0
        /\ last.op = "from_value" => got = last.arg
C2_Witness ==
    last.op = "from_value" /\ last.arg = 5 /\ value = 5 /\ kind = "checked"

\* C3: checked add_one ORs the role's magnitude into the stored magnitude and
\* add_all ORs in the magnitudes of all listed roles (nothing for an empty Vec).
C3_AddIsUnion ==
    kind = "checked" =>
        /\ last.op = "add_one" =>
              BitsOf(value) = BitsOf(last.pre) \cup BitsOf(checked_into(last.arg))
        /\ last.op = "add_all" =>
              /\ BitsOf(value) = BitsOf(last.pre) \cup
                    UNION {BitsOf(checked_into(last.arg[i])) : i \in 1..Len(last.arg)}
              /\ last.arg = <<>> => value = last.pre
        /\ last.op \in {"add_one", "add_all"} => value \in Word
C3_Witness ==
    /\ kind = "checked" /\ last.op = "add_all"
    /\ last.arg = <<1, 2>> /\ last.pre = 4 /\ value = 7

\* C4: checked remove_one clears the bits of the role's magnitude
\* (m & ~r), remove_all clears the bits of every listed role, and removing
\* every role that was added to an empty manager brings the magnitude to 0.
C4_Step ==
    kind' = "checked" =>
        /\ last'.op = "remove_one" =>
              BitsOf(value') = BitsOf(last'.pre) \ BitsOf(checked_into(last'.arg))
        /\ last'.op = "remove_all" =>
              BitsOf(value') = BitsOf(last'.pre) \
                    UNION {BitsOf(checked_into(last'.arg[i])) : i \in 1..Len(last'.arg)}
        /\ last'.op \in {"remove_one", "remove_all"} => value' \in Word
        /\ (/\ kind = "checked" /\ last.pre = 0
            /\ last.op = "add_one" /\ last'.op = "remove_one"
            /\ last'.arg = last.arg) => value' = 0
        /\ (/\ kind = "checked" /\ last.pre = 0
            /\ last.op = "add_all" /\ last'.op = "remove_all"
            /\ {last.arg[i] : i \in 1..Len(last.arg)}
                  \subseteq {last'.arg[i] : i \in 1..Len(last'.arg)}) => value' = 0
C4_RemoveIsDifference == [][C4_Step]_vars
C4_Witness ==
    /\ kind = "checked" /\ last.op = "remove_all"
    /\ last.arg = <<1, 2>> /\ last.pre = 3 /\ value = 0

\* C5: has_one (checked), and try_has_one / has_one (unchecked) on a valid
\* role, answer true exactly when the stored magnitude and the role's
\* magnitude share a bit.
C5_HasOneIsIntersection ==
    /\ (kind = "checked" /\ last.op = "has_one") =>
          last.res.val = Intersects(last.pre, checked_into(last.arg))
    /\ (kind = "unchecked" /\ last.op \in {"try_has_one", "has_one"}
        /\ SingleRole(ArgMag(last, kind))) =>
          /\ last.res.tag = "Ok"
          /\ last.res.val = Intersects(last.pre, ArgMag(last, kind))
C5_Witness ==
    /\ kind = "unchecked" /\ last.op = "try_has_one"
    /\ last.arg = Raw(4) /\ last.pre = 5 /\ last.res = Ok(TRUE)

\* C6: in every reachable state the sentinel role (magnitude 0) is not had:
\* has_one of it answers false on both managers.
C6_SentinelNeverHad ==
    /\ kind = "checked" => ~has_one(value, 0)
    /\ kind = "unchecked" =>
          /\ try_has_one(value, Role("None")) = Ok(FALSE)
          /\ try_has_one(value, Raw(0)) = Ok(FALSE)
          /\ unchecked_has_one(value, "None") = Ok(FALSE)
    /\ (last.op \in {"has_one", "try_has_one"} /\ ArgMag(last, kind) = 0) =>
          last.res = Ok(FALSE)
C6_Witness ==
    /\ kind = "checked" /\ last.op = "has_one" /\ last.arg = 0
    /\ value = 5 /\ last.res.val = FALSE

\* what has_one of the role just given to the last call answers now
HasOneNow ==
    IF kind = "checked" THEN has_one(value, last.arg)
    ELSE IF last.op = "add_one" THEN unchecked_has_one(value, last.arg).val
    ELSE try_has_one(value, last.arg).val

AddedToEmpty ==
    /\ last.op \in {"add_one", "try_add_one"}
    /\ last.pre = 0
    /\ last.res.tag = "Ok"

\* C7 as stated: for every magnitude the validator accepts, an empty manager
\* after add_one(r) has has_one(r) true and value r.
C7_Original ==
    AddedToEmpty => (HasOneNow /\ value = ArgMag(last, kind))

\* C7 amended: an empty manager after add_one(r) has value r for every valid
\* r; has_one(r) is then true when r is not 0 and false for the sentinel 0.
C7_HasOneAfterAdd ==
    AddedToEmpty =>
        /\ value = ArgMag(last, kind)
        /\ HasOneNow = (ArgMag(last, kind) # 0)
C7_Witness ==
    /\ kind = "checked" /\ last.op = "add_one" /\ last.pre = 0
    /\ last.arg = 3 /\ value = 4 /\ has_one(value, 3)

\* C8: on both managers, add_one(r) followed by remove_one(r), for a valid r
\* whose bit was clear in m, gives back exactly m.
C8_Step ==
    (/\ kind' = kind
     /\ last.op \in {"add_one", "try_add_one"}
     /\ last'.op \in {"remove_one", "try_remove_one"}
     /\ ArgMag(last, kind) = ArgMag(last', kind)
     /\ SingleRole(ArgMag(last, kind))
     /\ ~Intersects(last.pre, ArgMag(last, kind)))
    => (value' = last.pre /\ last'.res.tag = "Ok")
C8_AddRemoveInverse == [][C8_Step]_vars
C8_Witness ==
    /\ kind = "unchecked" /\ last.op = "try_remove_one"
    /\ last.arg = Raw(2) /\ last.pre = 7 /\ value = 5

\* C9: checked has_all answers true exactly when every listed role is had
\* (true for the empty Vec; false for [One, Two] on a manager holding One only).
C9_HasAllIsConjunction ==
    (kind = "checked" /\ last.op = "has_all") =>
        /\ last.res.val =
              (\A i \in 1..Len(last.arg) :
                  Intersects(last.pre, checked_into(last.arg[i])))
        /\ last.arg = <<>> => last.res.val
C9_Witness ==
    /\ kind = "checked" /\ last.op = "has_all"
    /\ last.arg = <<1, 2>> /\ last.pre = 1 /\ last.res.val = FALSE

\* C10: has_any (checked), and try_has_any / has_any (unchecked) over valid
\* roles, answer true exactly when at least one listed role is had; false for
\* the empty Vec and for an empty manager.
C10_HasAnyIsDisjunction ==
    LET mags == ArgMags(last, kind)
        valid == \A i \in 1..Len(mags) : SingleRole(mags[i])
    IN  (/\ last.op \in {"has_any", "try_has_any"}
         /\ kind = "checked" \/ valid) =>
            /\ last.res.tag = "Ok"
            /\ last.res.val = (\E i \in 1..Len(mags) : Intersects(last.pre, mags[i]))
            /\ (last.arg = <<>> \/ last.pre = 0) => ~last.res.val
C10_Witness ==
    /\ kind = "unchecked" /\ last.op = "try_has_any"
    /\ last.arg = <<Raw(1), Role("Two")>> /\ last.pre = 2 /\ last.res = Ok(TRUE)

\* index of the first element whose magnitude is no single role, 0 if none
FirstInvalid(mags) ==
    LET bad == {i \in 1..Len(mags) : ~SingleRole(mags[i])}
    IN  IF bad = {} THEN 0 ELSE CHOOSE i \in bad : \A j \in bad : i <= j

\* C11: not_one / not_all / not_any answer the negation of has_one / has_all /
\* has_any (checked); try_not_* answer Ok of the negation when try_has_* is Ok
\* and the same error when it fails (unchecked).
C11_NotIsNegation ==
    /\ kind = "checked" =>
          /\ last.op = "not_one" =>
                /\ last.res.val = ~Intersects(last.pre, checked_into(last.arg))
                /\ last.res.val = ~has_one(last.pre, last.arg)
          /\ last.op = "not_all" =>
                /\ last.res.val =
                      ~(\A i \in 1..Len(last.arg) :
                          Intersects(last.pre, checked_into(last.arg[i])))
                /\ last.res.val = ~has_all(last.pre, last.arg)
          /\ last.op = "not_any" =>
                /\ last.res.val =
                      ~(\E i \in 1..Len(last.arg) :
                          Intersects(last.pre, checked_into(last.arg[i])))
                /\ last.res.val = ~has_any(last.pre, last.arg)
    /\ (kind = "unchecked" /\ last.op \in {"try_not_one", "try_not_all", "try_not_any"}) =>
          LET has == CASE last.op = "try_not_one" -> try_has_one(last.pre, last.arg)
                       [] last.op = "try_not_all" -> try_has_all(last.pre, last.arg)
                       [] last.op = "try_not_any" -> try_has_any(last.pre, last.arg)
          IN  /\ last.res.tag = has.tag
              /\ has.tag = "Ok" => last.res.val = ~has.val
              /\ has.tag = "InvalidRole" => last.res.val = has.val
              /\ value = last.pre
C11_Witness ==
    /\ kind = "unchecked" /\ last.op = "try_not_any"
    /\ last.arg = <<Raw(1), Role("Two")>> /\ last.pre = 4 /\ last.res = Ok(TRUE)

\* C12: try_add_one, try_remove_one and try_has_one reject a magnitude that is
\* neither 0 nor a power of two with InvalidRole of that magnitude and leave
\* the stored magnitude alone; they succeed on a valid magnitude.
C12_SingleValidation ==
    (kind = "unchecked" /\ last.op \in {"try_add_one", "try_remove_one", "try_has_one"}) =>
        LET mag == role_value_into(last.arg)
        IN  IF SingleRole(mag)
            THEN last.res.tag = "Ok"
            ELSE /\ last.res.tag = "InvalidRole"
                 /\ last.res.val = mag
                 /\ value = last.pre
C12_Witness ==
    /\ kind = "unchecked" /\ last.op = "try_add_one" /\ last.arg = Raw(5)
    /\ last.pre = 2 /\ value = 2 /\ last.res = InvalidRole(5)

\* C13: try_add_all / try_remove_all stop at the first invalid element with
\* InvalidRole of its magnitude; the elements before it are applied and stay
\* applied, the elements after it are not applied.
C13_BatchNotAtomic ==
    (kind = "unchecked" /\ last.op \in {"try_add_all", "try_remove_all"}) =>
        LET mags == ArgMags(last, kind)
            fi == FirstInvalid(mags)
            applied == IF fi = 0 THEN Len(mags) ELSE fi - 1
            bits == UNION {BitsOf(mags[i]) : i \in 1..applied}
        IN  /\ fi = 0 => last.res.tag = "Ok"
            /\ fi # 0 => (last.res.tag = "InvalidRole" /\ last.res.val = mags[fi])
            /\ last.op = "try_add_all" => BitsOf(value) = BitsOf(last.pre) \cup bits
            /\ last.op = "try_remove_all" => BitsOf(value) = BitsOf(last.pre) \ bits
            /\ value \in Word
C13_Witness ==
    /\ kind = "unchecked" /\ last.op = "try_add_all"
    /\ last.arg = <<Raw(1), Raw(5)>> /\ last.pre = 0 /\ value = 1
    /\ last.res = InvalidRole(5)

C15_UncheckedHasAllIsConjunction ==
    (kind = "unchecked" /\ last.op \in {"has_all", "try_has_all"}) =>
        LET mags == ArgMags(last, kind)
        IN  FirstInvalid(mags) = 0 =>
               /\ last.res.tag = "Ok"
               /\ last.res.val =
                     (\A i \in 1..Len(mags) : Intersects(last.pre, mags[i]))

\* C16: the unchecked has_any panics, and try_has_any fails with InvalidRole,
\* whenever any listed role is invalid, wherever it stands in the Vec.
C16_InvalidNeverMasked ==
    (kind = "unchecked" /\ last.op \in {"has_any", "try_has_any"}) =>
        LET mags == ArgMags(last, kind)
        IN  FirstInvalid(mags) # 0 =>
               last.res.tag = (IF last.op = "has_any" THEN "Panic" ELSE "InvalidRole")

\* C17: try_has_all over a Vec with an invalid element fails with InvalidRole
\* of the first invalid element, whatever the stored magnitude and the
\* answers for the elements before it; has_all panics in the same cases.
C17_HasAllFirstInvalid ==
    (kind = "unchecked" /\ last.op \in {"has_all", "try_has_all"}) =>
        LET mags == ArgMags(last, kind)
            fi == FirstInvalid(mags)
        IN  fi # 0 =>
               /\ value = last.pre
               /\ IF last.op = "has_all" THEN last.res.tag = "Panic"
                  ELSE last.res.tag = "InvalidRole" /\ last.res.val = mags[fi]
C17_Witness ==
    /\ kind = "unchecked" /\ last.op = "try_has_all"
    /\ last.arg = <<Raw(1), Raw(3)>> /\ last.pre = 0 /\ last.res = InvalidRole(3)

\* C18: two managers of one type are equal exactly when their stored
\* magnitudes are equal, however the magnitude was reached.
C18_ManagerEquality ==
    /\ last.op = "eq" =>
          /\ last.res.val = (last.pre = last.arg)
          /\ last.res.val = (BitsOf(last.pre) = BitsOf(last.arg))
          /\ value = last.pre
    /\ kind = "checked" => eq(value, from_value(value))
    /\ kind = "unchecked" => unchecked_eq(value, unchecked_from_value(value))
C18_Witness ==
    /\ kind = "checked" /\ last.op = "eq"
    /\ last.pre = 3 /\ last.arg = 3 /\ last.res.val = TRUE

\* C19: two RoleValues are equal exactly when their normalized magnitudes are
\* equal, whatever their variants; the relation is reflexive, symmetric and
\* transitive.
C19_RoleValueEquality ==
    last.op = "role_value_eq" =>
        LET a == last.arg[1]
            b == last.arg[2]
            res == last.res.val
        IN  /\ res = (role_value_into(a) = role_value_into(b))
            /\ (a.tag = "Role" /\ b.tag = "Raw") =>
                  res = (unchecked_into(a.role) = b.value)
            /\ (a.tag = "Raw" /\ b.tag = "Role") =>
                  res = (a.value = unchecked_into(b.role))
            /\ (a.tag = "Raw" /\ b.tag = "Raw") => res = (a.value = b.value)
            /\ (a.tag = "Role" /\ b.tag = "Role") =>
                  res = (unchecked_into(a.role) = unchecked_into(b.role))
            /\ role_value_eq(a, a)
            /\ role_value_eq(b, a) = res
            /\ res => \A c \in RoleValue : role_value_eq(b, c) => role_value_eq(a, c)
C19_Witness ==
    /\ last.op = "role_value_eq"
    /\ last.arg = <<Role("Two"), Raw(2)>> /\ last.res.val = TRUE

\* C20: from_role / from_usize build the value unvalidated; try_from_role /
\* try_from_usize succeed exactly on a valid magnitude and otherwise fail with
\* InvalidRole of it; the conversion to usize gives the role's magnitude for
\* Role and the integer for Raw.
C20_RoleValueConstruction ==
    /\ last.op = "from_role" =>
          (last.res.tag = "Ok" /\ last.res.val.tag = "Role"
           /\ last.res.val.role = last.arg)
    /\ last.op = "from_usize" =>
          (last.res.tag = "Ok" /\ last.res.val.tag = "Raw"
           /\ last.res.val.value = last.arg)
    /\ last.op = "try_from_role" =>
          IF SingleRole(unchecked_into(last.arg))
          THEN /\ last.res.tag = "Ok" /\ last.res.val.tag = "Role"
               /\ last.res.val.role = last.arg
          ELSE /\ last.res.tag = "InvalidRole"
               /\ last.res.val = unchecked_into(last.arg)
    /\ last.op = "try_from_usize" =>
          IF SingleRole(last.arg)
          THEN /\ last.res.tag = "Ok" /\ last.res.val.tag = "Raw"
               /\ last.res.val.value = last.arg
          ELSE /\ last.res.tag = "InvalidRole" /\ last.res.val = last.arg
    /\ last.op = "into" =>
          /\ last.res.val \in Word
          /\ last.arg.tag = "Role" => last.res.val = unchecked_into(last.arg.role)
          /\ last.arg.tag = "Raw" => last.res.val = last.arg.value
C20_Witness ==
    /\ last.op = "try_from_role" /\ last.arg = "Five"
    /\ last.res = InvalidRole(5)

\* C21: derive(BitRole) emits the manager impls exactly for the enums whose
\* variants all carry an integer literal discriminant of the word that is 0
\* or has one bit set; otherwise its output is the error of the first variant,
\* in declaration order, that has no discriminant, a non-literal right-hand
\* side (such as -3), a non-integer literal or a value with two bits (such
\* as 5); a checked manager exists only for a type all of whose variants pass.
C21_GoodVariant(variant) ==
    /\ variant.discriminant.expr = "Lit::Int"
    /\ variant.discriminant.digits \in Word
    /\ Cardinality(BitsOf(variant.discriminant.digits)) <= 1
C21_Bad(input) == {i \in 1..Len(input.variants) : ~C21_GoodVariant(input.variants[i])}
C21_StaticRejection ==
    /\ (last.op = "derive_bit_role" /\ last.arg.data = "Enum") =>
          LET bad == C21_Bad(last.arg) IN
          /\ (last.res.tag = "Ok") <=> (bad = {})
          /\ bad # {} =>
                 /\ last.res.tag = "CompileError"
                 /\ last.res.val.ident \in bad
                 /\ \A i \in bad : last.res.val.ident <= i
    /\ kind = "checked" =>
          /\ DerivedType.data = "Enum"
          /\ C21_Bad(DerivedType) = {}
C21_Witness ==
    /\ last.op = "derive_bit_role"
    /\ last.arg.data = "Enum"
    /\ Len(last.arg.variants) = 2
    /\ last.arg.variants[1].discriminant = LitInt(0)
    /\ last.arg.variants[2].discriminant = LitInt(5)
    /\ last.res = CompileError(2, "is neither zero nor a power of two")

\* the operations of the unchecked manager that take bare symbolic roles
ConvenienceOps ==
    {"add_one", "add_all", "remove_one", "remove_all", "has_one", "has_all",
     "has_any", "not_one", "not_all", "not_any"}

\* the fallible operation of the same name on the roles wrapped as
\* RoleValue::Role, as the manager after the call and the Result
C22_Wrap(roles) == [i \in 1..Len(roles) |-> Role(roles[i])]
C22_Query(self, res) == [self |-> self, res |-> res]
C22_Try(op, self, arg) ==
    CASE op = "add_one" -> try_add_one(self, Role(arg))
      [] op = "add_all" -> try_add_all(self, C22_Wrap(arg))
      [] op = "remove_one" -> try_remove_one(self, Role(arg))
      [] op = "remove_all" -> try_remove_all(self, C22_Wrap(arg))
      [] op = "has_one" -> C22_Query(self, try_has_one(self, Role(arg)))
      [] op = "has_all" -> C22_Query(self, try_has_all(self, C22_Wrap(arg)))
      [] op = "has_any" -> C22_Query(self, try_has_any(self, C22_Wrap(arg)))
      [] op = "not_one" -> C22_Query(self, try_not_one(self, Role(arg)))
      [] op = "not_all" -> C22_Query(self, try_not_all(self, C22_Wrap(arg)))
      [] op = "not_any" -> C22_Query(self, try_not_any(self, C22_Wrap(arg)))

\* C22: every convenience operation of the unchecked manager (add_one ..
\* not_any on bare roles) behaves as the try_ operation of the same name on
\* the roles wrapped as RoleValue::Role: where that returns Ok the call
\* returns the same value and leaves the same magnitude, and the call panics
\* exactly where that returns InvalidRole.
C22_ConvenienceIsTry ==
    (kind = "unchecked" /\ last.op \in ConvenienceOps) =>
        LET t == C22_Try(last.op, last.pre, last.arg) IN
        /\ t.res.tag = "Ok" => (last.res = t.res /\ value = t.self)
        /\ (t.res.tag = "InvalidRole") <=> (last.res.tag = "Panic")
C22_Witness ==
    /\ kind = "unchecked"
    /\ last.op = "not_any"
    /\ last.arg = <<"One", "Five">>
    /\ last.pre = 2
    /\ last.res.tag = "Panic"

\* C23: a checked and an unchecked manager that start from the same magnitude
\* and receive the same add_one / add_all / remove_one / remove_all calls with
\* roles of valid magnitude hold the same magnitude after every call, has_one
\* and has_any answer the same on both, and no call fails on either.
C23_ManagersAgree ==
    kind = "pair" =>
        /\ value.checked = value.unchecked
        /\ last.res.checked.tag = "Ok"
        /\ last.res.unchecked.tag = "Ok"
        /\ last.op \in {"has_one", "has_any"} =>
               last.res.unchecked.val = last.res.checked.val
C23_Witness ==
    /\ kind = "pair"
    /\ last.op = "remove_all"
    /\ Len(last.arg) = 2
    /\ last.arg[1] # last.arg[2]
    /\ last.pre.checked = 7
    /\ value.checked = 4
    /\ value.unchecked = 4

\* the operation of the unchecked manager named op, as the manager after the
\* call and what the call returns
C24_Apply(op, self, arg) ==
    CASE op = "try_add_one" -> try_add_one(self, arg)
      [] op = "try_add_all" -> try_add_all(self, arg)
      [] op = "try_remove_one" -> try_remove_one(self, arg)
      [] op = "try_remove_all" -> try_remove_all(self, arg)
      [] op = "try_has_one" -> C22_Query(self, try_has_one(self, arg))
      [] op = "try_has_all" -> C22_Query(self, try_has_all(self, arg))
      [] op = "try_has_any" -> C22_Query(self, try_has_any(self, arg))
      [] op = "try_not_one" -> C22_Query(self, try_not_one(self, arg))
      [] op = "try_not_all" -> C22_Query(self, try_not_all(self, arg))
      [] op = "try_not_any" -> C22_Query(self, try_not_any(self, arg))
      [] op = "add_one" -> unchecked_add_one(self, arg)
      [] op = "add_all" -> unchecked_add_all(self, arg)
      [] op = "remove_one" -> unchecked_remove_one(self, arg)
      [] op = "remove_all" -> unchecked_remove_all(self, arg)
      [] op = "has_one" -> C22_Query(self, unchecked_has_one(self, arg))
      [] op = "has_all" -> C22_Query(self, unchecked_has_all(self, arg))
      [] op = "has_any" -> C22_Query(self, unchecked_has_any(self, arg))
      [] op = "not_one" -> C22_Query(self, unchecked_not_one(self, arg))
      [] op = "not_all" -> C22_Query(self, unchecked_not_all(self, arg))
      [] op = "not_any" -> C22_Query(self, unchecked_not_any(self, arg))

C24_SingleOps ==
    {"try_add_one", "try_remove_one", "try_has_one", "try_not_one",
     "add_one", "remove_one", "has_one", "not_one"}
C24_BatchOps ==
    {"try_add_all", "try_remove_all", "try_has_all", "try_has_any",
     "try_not_all", "try_not_any",
     "add_all", "remove_all", "has_all", "has_any", "not_all", "not_any"}

\* the arguments of equal normalized magnitude: any RoleValue (Role or Raw)
\* for a RoleValue, any symbolic role for a bare symbolic role
C24_Same(op, a) ==
    IF op \in ConvenienceOps
    THEN {b \in UncheckedRole : unchecked_into(b) = unchecked_into(a)}
    ELSE {b \in RoleValue : role_value_into(b) = role_value_into(a)}
RECURSIVE C24_SameSeqs(_, _)
C24_SameSeqs(op, roles) ==
    IF roles = <<>> THEN {<<>>}
    ELSE {<<b>> \o rest : b \in C24_Same(op, Head(roles)),
                          rest \in C24_SameSeqs(op, Tail(roles))}

\* C24: an operation of the unchecked manager sees its arguments only through
\* their magnitudes: with Role(X) replaced by Raw(m) of X's magnitude, or a
\* symbolic role by another of equal magnitude, the call leaves the same
\* stored magnitude and returns the same boolean or the same error.
C24_MagnitudeOnly ==
    kind = "unchecked" =>
        /\ last.op \in C24_SingleOps =>
               \A b \in C24_Same(last.op, last.arg) :
                   C24_Apply(last.op, last.pre, b) = [self |-> value, res |-> last.res]
        /\ last.op \in C24_BatchOps =>
               \A bs \in C24_SameSeqs(last.op, last.arg) :
                   C24_Apply(last.op, last.pre, bs) = [self |-> value, res |-> last.res]
C24_Witness ==
    /\ kind = "unchecked"
    /\ last.op = "try_add_all"
    /\ last.arg = <<Role("Two"), Raw(5)>>
    /\ last.pre = 1
    /\ value = 3
    /\ last.res = InvalidRole(5)

C25_QueryOps ==
    {"has_one", "has_all", "has_any", "not_one", "not_all", "not_any",
     "get_value",
     "try_has_one", "try_has_all", "try_has_any",
     "try_not_one", "try_not_all", "try_not_any"}

\* C25: the queries of both managers (has_one .. not_any, get_value and the
\* try_ forms) leave the stored magnitude as it was before the call, whatever
\* the argument, also when the query stops at an invalid role part-way
\* through its Vec.
C25_QueriesArePure ==
    (kind \in {"checked", "unchecked"} /\ last.op \in C25_QueryOps) =>
        value = last.pre
C25_Witness ==
    /\ kind = "unchecked"
    /\ last.op = "try_has_all"
    /\ last.arg = <<Raw(1), Raw(5)>>
    /\ last.res = InvalidRole(5)
    /\ last.pre = 3
    /\ value = 3

C26_AddOps == {"add_one", "add_all", "try_add_one", "try_add_all"}
C26_RemoveOps == {"remove_one", "remove_all", "try_remove_one", "try_remove_all"}

\* the magnitudes of the roles a mutating call names
C26_Named(call, k) ==
    IF call.op \in {"add_one", "remove_one", "try_add_one", "try_remove_one"}
    THEN {ArgMag(call, k)}
    ELSE {ArgMags(call, k)[i] : i \in 1..Len(call.arg)}

\* the single-role magnitudes other than the sentinel, and whether the bit
\* of such a role is set in a magnitude
C26_Roles == {pow2(i) : i \in 0..(WordBits - 1)}
C26_Bit(m, r) == (m \div r) % 2 = 1

\* C26: along any sequence of successful add_one / add_all / remove_one /
\* remove_all calls with valid non-zero roles, each call leaves the bit of a
\* role r set if the call added r, clear if it removed r, and as it was if it
\* did not name r (so has_one(r) follows the most recent call that named r,
\* or the initial magnitude); in the state right after remove_one(r),
\* not_one(r) answers true.
C26_LastOperationWins ==
    /\ (/\ kind \in {"checked", "unchecked"}
        /\ last.op \in C26_AddOps \cup C26_RemoveOps
        /\ last.res.tag = "Ok"
        /\ C26_Named(last, kind) \subseteq C26_Roles) =>
           LET named == C26_Named(last, kind) IN
           \A r \in C26_Roles :
               C26_Bit(value, r) <=>
                   IF r \in named
                   THEN last.op \in C26_AddOps
                   ELSE C26_Bit(last.pre, r)
    /\ (/\ kind \in {"checked", "unchecked"}
        /\ last.op \in {"remove_one", "try_remove_one"}
        /\ last.res.tag = "Ok"
        /\ ArgMag(last, kind) \in C26_Roles) =>
           IF kind = "checked" THEN not_one(value, last.arg)
           ELSE IF last.op = "remove_one"
                THEN unchecked_not_one(value, last.arg) = Ok(TRUE)
                ELSE try_not_one(value, last.arg) = Ok(TRUE)
C26_Witness ==
    /\ kind = "unchecked"
    /\ last.op = "try_remove_one"
    /\ last.arg = Role("Deux")
    /\ last.res.tag = "Ok"
    /\ last.pre = 7
    /\ value = 5

\* has_one asked of a manager of kind k holding m, for the role of magnitude s
C27_HasOne(k, m, s) ==
    IF k = "checked"
    THEN \E role \in CheckedRole : checked_into(role) = s /\ has_one(m, role)
    ELSE try_has_one(m, Raw(s)) = Ok(TRUE)

\* C27: a successful add_one or remove_one with a role of magnitude r changes
\* no bit other than r's: has_one(s) answers the same before and after for
\* every other valid non-zero role s; add_one clears no bit and does not
\* lower the magnitude, remove_one sets no bit and does not raise it.
C27_OtherBitsKept ==
    (/\ kind \in {"checked", "unchecked"}
     /\ last.op \in {"add_one", "remove_one", "try_add_one", "try_remove_one"}
     /\ last.res.tag = "Ok") =>
        LET r == ArgMag(last, kind) IN
        /\ BitsOf(value) \ BitsOf(r) = BitsOf(last.pre) \ BitsOf(r)
        /\ \A s \in C26_Roles \ {r} :
               C27_HasOne(kind, value, s) <=> C27_HasOne(kind, last.pre, s)
        /\ last.op \in {"add_one", "try_add_one"} =>
               (BitsOf(last.pre) \subseteq BitsOf(value) /\ value >= last.pre)
        /\ last.op \in {"remove_one", "try_remove_one"} =>
               (BitsOf(value) \subseteq BitsOf(last.pre) /\ value <= last.pre)
C27_Witness ==
    /\ kind = "checked"
    /\ last.op = "remove_one"
    /\ last.arg = 2
    /\ last.pre = 7
    /\ value = 5

\* the mutating operation named op of a manager of kind k, applied to the
\* magnitude self: the magnitude after the call and what the call returns
C28_Apply(k, op, self, arg) ==
    IF k = "unchecked" THEN C24_Apply(op, self, arg)
    ELSE [self |-> CASE op = "add_one" -> add_one(self, arg)
                     [] op = "add_all" -> add_all(self, arg)
                     [] op = "remove_one" -> remove_one(self, arg)
                     [] op = "remove_all" -> remove_all(self, arg),
          res |-> Ok("self")]

\* a Vec without its repeated elements (the first occurrence is kept)
RECURSIVE C28_Dedup(_)
C28_Dedup(roles) ==
    IF roles = <<>> THEN <<>>
    ELSE <<Head(roles)>> \o C28_Dedup(SelectSeq(Tail(roles), LAMBDA x : x # Head(roles)))

\* C28: add_one and remove_one are idempotent on both managers (the same
\* call made again on the resulting manager leaves the magnitude as it is),
\* and add_all / remove_all on a Vec with repeated elements give what they
\* give on the Vec without the repetitions.
C28_Idempotent ==
    /\ (/\ kind \in {"checked", "unchecked"}
        /\ last.op \in {"add_one", "remove_one", "try_add_one", "try_remove_one"}
        /\ last.res.tag = "Ok") =>
           C28_Apply(kind, last.op, value, last.arg) = [self |-> value, res |-> Ok("self")]
    /\ (/\ kind \in {"checked", "unchecked"}
        /\ last.op \in {"add_all", "remove_all", "try_add_all", "try_remove_all"}) =>
           C28_Apply(kind, last.op, last.pre, C28_Dedup(last.arg))
               = [self |-> value, res |-> last.res]
C28_Witness ==
    /\ kind = "unchecked"
    /\ last.op = "try_add_all"
    /\ last.arg = <<Role("Two"), Role("Two")>>
    /\ last.pre = 1
    /\ value = 3

\* the valid magnitudes, and add_one / remove_one of a manager of kind k
\* holding m with the role of magnitude s
C29_Valid == {0} \cup C26_Roles
C29_Add(k, m, s) ==
    IF k = "checked"
    THEN add_one(m, CHOOSE role \in CheckedRole : checked_into(role) = s)
    ELSE try_add_one(m, Raw(s)).self
C29_Remove(k, m, s) ==
    IF k = "checked"
    THEN remove_one(m, CHOOSE role \in CheckedRole : checked_into(role) = s)
    ELSE try_remove_one(m, Raw(s)).self

\* the Vecs holding the same elements in another order
C29_Reorderings(roles) ==
    LET n == Len(roles) IN
    {[i \in 1..n |-> roles[p[i]]] :
        p \in {q \in [1..n -> 1..n] : \A i, j \in 1..n : q[i] = q[j] => i = j}}

\* C29: over valid roles the magnitude after add_all / remove_all does not
\* depend on the order of the Vec; two add_one calls commute and two
\* remove_one calls commute; an add_one and a remove_one commute when their
\* roles differ in magnitude and give different magnitudes in the two orders
\* when they name the same non-zero role.
C29_Commutation ==
    /\ (/\ kind \in {"checked", "unchecked"}
        /\ last.op \in {"add_all", "remove_all", "try_add_all", "try_remove_all"}
        /\ last.res.tag = "Ok") =>
           \A roles \in C29_Reorderings(last.arg) :
               C28_Apply(kind, last.op, last.pre, roles) = [self |-> value, res |-> Ok("self")]
    /\ (/\ kind \in {"checked", "unchecked"}
        /\ last.op \in {"add_one", "try_add_one"}
        /\ last.res.tag = "Ok") =>
           LET r == ArgMag(last, kind) IN
           /\ \A s \in C29_Valid :
                  C29_Add(kind, value, s) = C29_Add(kind, C29_Add(kind, last.pre, s), r)
           /\ \A s \in C29_Valid \ {r} :
                  C29_Remove(kind, value, s) = C29_Add(kind, C29_Remove(kind, last.pre, s), r)
           /\ r # 0 =>
                  C29_Remove(kind, value, r) # C29_Add(kind, C29_Remove(kind, last.pre, r), r)
    /\ (/\ kind \in {"checked", "unchecked"}
        /\ last.op \in {"remove_one", "try_remove_one"}
        /\ last.res.tag = "Ok") =>
           LET r == ArgMag(last, kind) IN
           /\ \A s \in C29_Valid :
                  C29_Remove(kind, value, s)
                      = C29_Remove(kind, C29_Remove(kind, last.pre, s), r)
           /\ \A s \in C29_Valid \ {r} :
                  C29_Add(kind, value, s) = C29_Remove(kind, C29_Add(kind, last.pre, s), r)
           /\ r # 0 =>
                  C29_Add(kind, value, r) # C29_Remove(kind, C29_Add(kind, last.pre, r), r)
C29_Witness ==
    /\ kind = "checked"
    /\ last.op = "add_all"
    /\ last.arg = <<2, 1>>
    /\ last.pre = 4
    /\ value = 7

\* C30: add_one and remove_one with the sentinel (magnitude 0) succeed on
\* both managers and leave the stored magnitude as it was, for every
\* magnitude of the word including the largest: the complement of 0 has
\* every bit of the word set, so the and in remove_one keeps every bit.
C30_SentinelIsNoOp ==
    (/\ kind \in {"checked", "unchecked"}
     /\ last.op \in {"add_one", "remove_one", "try_add_one", "try_remove_one"}
     /\ ArgMag(last, kind) = 0) =>
        /\ last.res = Ok("self")
        /\ value = last.pre
        /\ BitsOf(value) = BitsOf(last.pre)
        /\ BitsOf(not(0)) = 0..(WordBits - 1)
C30_Witness ==
    /\ kind = "unchecked"
    /\ last.op = "try_remove_one"
    /\ last.arg = Raw(0)
    /\ last.res = Ok("self")
    /\ last.pre = MaxWord
    /\ value = MaxWord

====
